---------------------------- MODULE Spec2Model ----------------------------
(***************************************************************************)
(* The WireGuard cookie subsystem of wg_cookie.c: the initiator's Maker,   *)
(* the responder's Checker, and the per-family rate limiter with its GC    *)
(* callout.                                                                *)
(*                                                                         *)
(* Cryptographic values are symbolic terms: a hash is the record of what   *)
(* it absorbed, so two hashes are equal exactly when their keys and inputs *)
(* are; an AEAD box opens exactly under the key, nonce and associated data *)
(* it was sealed with; a random draw is a value never drawn before.  A     *)
(* tampered value carries flip = TRUE.  Every handler reads the clock once *)
(* and runs atomically (its lock is held for the whole update).            *)
(***************************************************************************)
EXTENDS Integers, Sequences, FiniteSets, TLC

VARIABLES
    now,            \* getsbinuptime(): the monotonic clock, in sbintime ticks
    cp,             \* struct cookie_maker (the initiator's peer state)
    cc,             \* struct cookie_checker (the responder's state)
    ratelimit_v4,   \* static struct ratelimit ratelimit_v4
    ratelimit_v6,   \* static struct ratelimit ratelimit_v6
    msg,            \* the Maker's last handshake message on the wire: buf and its cookie_macs
    reply,          \* the last cookie reply on the wire: nonce and ecookie
    ndraws,         \* how many random cookies arc4random_buf has handed out
    last,           \* call log: the last call and its return value
    seen,           \* call log: one earlier cookie computed by cookie_checker_make_cookie
    hist,           \* call log: the run of ratelimit_allow calls for one prefix
    ref,            \* a reference table that is given the same calls and is never swept
    life,           \* cookie_deinit's position, and the state of ratelimit_zone
    thr,            \* the threads inside cookie_maker_mac / cookie_maker_consume_payload
    cp_lock         \* cp->cp_lock: the threads holding it shared, and the one holding it exclusively

\* What only the reference, teardown and thread specifications change
rest == <<ref, life, thr, cp_lock>>

vars == <<now, cp, cc, ratelimit_v4, ratelimit_v6, msg, reply, ndraws, last, seen, hist, rest>>

----------------------------------------------------------------------------
(* Bounds of the model *)

\* Ticks of the monotonic clock per second (SBT_1S is 2^32 on the real clock).
SBT_1S == 40
\* Buckets of a rate-limit hash table (1 << 13 in the source).
RATELIMIT_SIZE == 2
\* Entries a rate-limit table may hold (RATELIMIT_SIZE * 8 in the source).
RATELIMIT_SIZE_MAX == 2
\* Random cookies that may be handed out to replies for unsupported families.
MaxDraws == 1
\* The cookie specification stops the clock after this many seconds.
MaxSeconds == 345
\* The token-bucket specification stops the clock after this many ticks.
MaxBucketTicks == 45
\* In the rate-limiter specifications a callout runs at most this many ticks after
\* it is due.
MaxGcDelay == 1
\* The table specification stops the clock after this many ticks.
MaxTableTicks == 41
\* The sweep specification stops the clock after this many ticks.
MaxGcTicks == 83

(* Program constants *)
COOKIE_SECRET_MAX_AGE == 120
COOKIE_SECRET_LATENCY == 5
INITIATIONS_PER_SECOND == 20
INITIATIONS_BURSTABLE == 5
INITIATION_COST == SBT_1S \div INITIATIONS_PER_SECOND
TOKEN_MAX == INITIATION_COST * INITIATIONS_BURSTABLE
ELEMENT_TIMEOUT == 1
IPV4_MASK_SIZE == 4
IPV6_MASK_SIZE == 8

COOKIE_MAC1_KEY_LABEL == "mac1----"
COOKIE_COOKIE_KEY_LABEL == "cookie--"

AF_INET == "AF_INET"
AF_INET6 == "AF_INET6"
AF_UNIX == "AF_UNIX"

OK == "0"
EINVAL == "EINVAL"
EAGAIN == "EAGAIN"
ETIMEDOUT == "ETIMEDOUT"
ECONNREFUSED == "ECONNREFUSED"
EAFNOSUPPORT == "EAFNOSUPPORT"
NONE == "-"

----------------------------------------------------------------------------
(* Symbolic byte strings *)

\* bzero'd key, cookie, MACs
ZeroKey == [label |-> "zero", input |-> 0]
ZeroCookie == [kind |-> "zero", secret |-> 0, data |-> <<>>]
ZeroMac1 == [kind |-> "zero", key |-> ZeroKey, buf |-> "", flip |-> FALSE]
ZeroMac2 == [kind |-> "zero", cookie |-> ZeroCookie, buf |-> "", mac1 |-> ZeroMac1,
             flip |-> FALSE]
NoSA == [af |-> NONE, addr |-> <<>>, port |-> 0]
NoBox == [key |-> ZeroKey, ad |-> ZeroMac1, nonce |-> 0, pt |-> ZeroCookie, flip |-> FALSE]
NoMsg == [buf |-> "", mac1 |-> ZeroMac1, mac2 |-> ZeroMac2]
NoReply == [nonce |-> 0, ecookie |-> NoBox]

\* BLAKE2s(label || input), 32 bytes
cookie_precompute_key(input, label) == [label |-> label, input |-> input]

\* keyed BLAKE2s over buf
cookie_macs_mac1(buf, key) == [kind |-> "mac1", key |-> key, buf |-> buf, flip |-> FALSE]

\* keyed BLAKE2s over buf, then the mac1 already in cm
cookie_macs_mac2(mac1, buf, key) ==
    [kind |-> "mac2", cookie |-> key, buf |-> buf, mac1 |-> mac1, flip |-> FALSE]

\* timingsafe_bcmp: 0 when equal
timingsafe_bcmp(a, b) == IF a = b THEN 0 ELSE 1

xchacha20poly1305_encrypt(pt, ad, nonce, key) ==
    [key |-> key, ad |-> ad, nonce |-> nonce, pt |-> pt, flip |-> FALSE]

\* TRUE when the tag verifies
xchacha20poly1305_decrypt(box, ad, nonce, key) ==
    /\ box.key = key
    /\ box.ad = ad
    /\ box.nonce = nonce
    /\ ~box.flip

\* nstosbt(nsec)
nstosbt(nsec) == (nsec * SBT_1S) \div 1000000000

\* Mutant: the timer counts as expired at the very tick it runs out
timer_expired_at_deadline(t, timer, sec, nsec) == t >= timer + sec * SBT_1S + nstosbt(nsec)

\* ETIMEDOUT (TRUE) or 0 (FALSE), at clock reading t
cookie_timer_expired(t, timer, sec, nsec) == t > timer + sec * SBT_1S + nstosbt(nsec)

----------------------------------------------------------------------------
(* Checker and Maker *)

cookie_checker_init ==
    [cc_mac1_key |-> ZeroKey, cc_cookie_key |-> ZeroKey,
     cc_secret_birthdate |-> 0, cc_secret |-> 0]

\* key = 0 is the NULL pointer
cookie_checker_update(c, key) ==
    IF key # 0
    THEN [c EXCEPT !.cc_mac1_key = cookie_precompute_key(key, COOKIE_MAC1_KEY_LABEL),
                   !.cc_cookie_key = cookie_precompute_key(key, COOKIE_COOKIE_KEY_LABEL)]
    ELSE [c EXCEPT !.cc_mac1_key = ZeroKey, !.cc_cookie_key = ZeroKey]

cookie_maker_init(key) ==
    [cp_mac1_key |-> cookie_precompute_key(key, COOKIE_MAC1_KEY_LABEL),
     cp_cookie_key |-> cookie_precompute_key(key, COOKIE_COOKIE_KEY_LABEL),
     cp_cookie |-> ZeroCookie, cp_birthdate |-> 0,
     cp_mac1_valid |-> FALSE, cp_mac1_last |-> ZeroMac1]

\* The keyed BLAKE2s of the address and port of sa under the Checker's secret
blake2s_cookie(secret, sa) ==
    [kind |-> "hash", secret |-> secret, data |-> Append(sa.addr, sa.port)]

\* Mutant: the secret is refreshed on every call, expired or not
make_cookie_always_refresh(c, sa, t, draw) ==
    LET c2 == [c EXCEPT !.cc_secret = @ + 1, !.cc_secret_birthdate = t]
    IN  [cc |-> c2,
         cookie |-> IF sa.af = AF_INET \/ sa.af = AF_INET6
                    THEN blake2s_cookie(c2.cc_secret, sa)
                    ELSE [kind |-> "rand", secret |-> draw, data |-> <<>>]]

\* Mutant: a refresh draws a new secret and leaves cc_secret_birthdate as it was
make_cookie_keeps_birthdate(c, sa, t, draw) ==
    LET expired == cookie_timer_expired(t, c.cc_secret_birthdate, COOKIE_SECRET_MAX_AGE, 0)
        c2 == IF expired THEN [c EXCEPT !.cc_secret = @ + 1] ELSE c
    IN  [cc |-> c2,
         cookie |-> IF sa.af = AF_INET \/ sa.af = AF_INET6
                    THEN blake2s_cookie(c2.cc_secret, sa)
                    ELSE [kind |-> "rand", secret |-> draw, data |-> <<>>]]

\* The secret is refreshed when older than COOKIE_SECRET_MAX_AGE; the cookie is the
\* keyed hash of address and port, or random bytes (draw number `draw`) for a
\* family that is neither AF_INET nor AF_INET6.
cookie_checker_make_cookie(c, sa, t, draw) ==
    LET expired == cookie_timer_expired(t, c.cc_secret_birthdate, COOKIE_SECRET_MAX_AGE, 0)
        c2 == IF expired
              THEN [c EXCEPT !.cc_secret = @ + 1, !.cc_secret_birthdate = t]
              ELSE c
    IN  [cc |-> c2,
         cookie |-> IF sa.af = AF_INET \/ sa.af = AF_INET6
                    THEN blake2s_cookie(c2.cc_secret, sa)
                    ELSE [kind |-> "rand", secret |-> draw, data |-> <<>>]]

cookie_checker_create_payload(c, mac1, nonce, sa, t, draw) ==
    LET mk == cookie_checker_make_cookie(c, sa, t, draw)
    IN  [cc |-> mk.cc,
         cookie |-> mk.cookie,
         nonce |-> nonce,
         ecookie |-> xchacha20poly1305_encrypt(mk.cookie, mac1, nonce, mk.cc.cc_cookie_key)]

\* Mutant: cp_mac1_valid is not tested
consume_without_valid_check(p, nonce, ecookie, t) ==
    IF ~xchacha20poly1305_decrypt(ecookie, p.cp_mac1_last, nonce, p.cp_cookie_key)
    THEN [cp |-> p, ret |-> EINVAL]
    ELSE [cp |-> [p EXCEPT !.cp_cookie = ecookie.pt,
                           !.cp_birthdate = t,
                           !.cp_mac1_valid = FALSE],
          ret |-> OK]

\* Mutant: cp_mac1_valid is left set after a cookie is installed
consume_keeps_mac1_valid(p, nonce, ecookie, t) ==
    IF ~p.cp_mac1_valid
    THEN [cp |-> p, ret |-> ETIMEDOUT]
    ELSE IF ~xchacha20poly1305_decrypt(ecookie, p.cp_mac1_last, nonce, p.cp_cookie_key)
    THEN [cp |-> p, ret |-> EINVAL]
    ELSE [cp |-> [p EXCEPT !.cp_cookie = ecookie.pt, !.cp_birthdate = t],
          ret |-> OK]

cookie_maker_consume_payload(p, nonce, ecookie, t) ==
    IF ~p.cp_mac1_valid
    THEN [cp |-> p, ret |-> ETIMEDOUT]
    ELSE IF ~xchacha20poly1305_decrypt(ecookie, p.cp_mac1_last, nonce, p.cp_cookie_key)
    THEN [cp |-> p, ret |-> EINVAL]
    ELSE [cp |-> [p EXCEPT !.cp_cookie = ecookie.pt,
                           !.cp_birthdate = t,
                           !.cp_mac1_valid = FALSE],
          ret |-> OK]

\* Mutant: the cookie is used for the whole COOKIE_SECRET_MAX_AGE
maker_mac_without_latency(p, buf, t) ==
    LET mac1 == cookie_macs_mac1(buf, p.cp_mac1_key)
    IN  [cp |-> [p EXCEPT !.cp_mac1_last = mac1, !.cp_mac1_valid = TRUE],
         mac1 |-> mac1,
         mac2 |-> IF ~cookie_timer_expired(t, p.cp_birthdate, COOKIE_SECRET_MAX_AGE, 0)
                  THEN cookie_macs_mac2(mac1, buf, p.cp_cookie)
                  ELSE ZeroMac2]

cookie_maker_mac(p, buf, t) ==
    LET mac1 == cookie_macs_mac1(buf, p.cp_mac1_key)
    IN  [cp |-> [p EXCEPT !.cp_mac1_last = mac1, !.cp_mac1_valid = TRUE],
         mac1 |-> mac1,
         mac2 |-> IF ~cookie_timer_expired(t, p.cp_birthdate,
                         COOKIE_SECRET_MAX_AGE - COOKIE_SECRET_LATENCY, 0)
                  THEN cookie_macs_mac2(mac1, buf, p.cp_cookie)
                  ELSE ZeroMac2]

----------------------------------------------------------------------------
(* Rate limiter *)

RECURSIVE SumBytes(_)
SumBytes(s) == IF s = <<>> THEN 0 ELSE Head(s) + SumBytes(Tail(s))

\* SipHash-1-3 of the first len bytes of src under key: some fixed function of both
siphash13(key, src, len) == key + SumBytes(SubSeq(src, 1, len))

\* hashinit_flags: RATELIMIT_SIZE empty lists; rl_secret is the arc4random draw
ratelimit_init(secret) ==
    [rl_secret |-> secret,
     rl_table |-> [i \in 0 .. RATELIMIT_SIZE - 1 |-> <<>>],
     rl_table_num |-> 0,
     rl_gc_pending |-> FALSE,      \* callout_pending(&rl->rl_gc)
     rl_gc_time |-> 0,             \* when the pending callout is due
     rl_gc_curr |-> FALSE]         \* the callout has fired and waits for rl_lock

\* Mutant: a callout is scheduled whether or not the table holds entries
gc_schedule_always(rl, t) ==
    IF ~rl.rl_gc_pending
    THEN [rl EXCEPT !.rl_gc_pending = TRUE, !.rl_gc_time = t + ELEMENT_TIMEOUT * SBT_1S,
                    !.rl_gc_curr = FALSE]
    ELSE rl

\* callout_reset arms the callout; a callout that has fired and still waits for
\* rl_lock, which the caller holds, is cancelled by it
ratelimit_gc_schedule(rl, t) ==
    IF rl.rl_table_num > 0 /\ ~rl.rl_gc_pending
    THEN [rl EXCEPT !.rl_gc_pending = TRUE, !.rl_gc_time = t + ELEMENT_TIMEOUT * SBT_1S,
                    !.rl_gc_curr = FALSE]
    ELSE rl

\* The entries of list l that the sweep keeps, in order
RECURSIVE GcKeep(_, _, _)
GcKeep(l, expiry, force) ==
    IF l = <<>> THEN <<>>
    ELSE IF Head(l).r_last_time < expiry \/ force
         THEN GcKeep(Tail(l), expiry, force)
         ELSE <<Head(l)>> \o GcKeep(Tail(l), expiry, force)

RECURSIVE SumLen(_, _)
SumLen(tbl, i) == IF i < 0 THEN 0 ELSE Len(tbl[i]) + SumLen(tbl, i - 1)

ratelimit_gc(rl, force, t) ==
    IF rl.rl_table_num = 0
    THEN rl
    ELSE LET expiry == t - ELEMENT_TIMEOUT * SBT_1S
             tbl == [i \in 0 .. RATELIMIT_SIZE - 1 |-> GcKeep(rl.rl_table[i], expiry, force)]
             removed == SumLen(rl.rl_table, RATELIMIT_SIZE - 1) - SumLen(tbl, RATELIMIT_SIZE - 1)
         IN  ratelimit_gc_schedule(
                 [rl EXCEPT !.rl_table = tbl, !.rl_table_num = @ - removed], t)

\* Mutant: the callout is not stopped before the forced sweep
ratelimit_deinit_without_stop(rl, t) == ratelimit_gc(rl, TRUE, t)

\* Under rl_lock: callout_stop, which also cancels a callout that has fired and
\* waits for the lock; the forced sweep; hashdestroy of the emptied lists
ratelimit_deinit(rl, t) ==
    ratelimit_gc([rl EXCEPT !.rl_gc_pending = FALSE, !.rl_gc_curr = FALSE], TRUE, t)

\* Mutant: the callout sweeps with force set
gc_callout_forced(rl, t) == ratelimit_gc([rl EXCEPT !.rl_gc_pending = FALSE], TRUE, t)

\* The callout subsystem clears the pending flag, takes rl_lock and calls the handler
ratelimit_gc_callout(rl, t) == ratelimit_gc([rl EXCEPT !.rl_gc_pending = FALSE], FALSE, t)

\* Mutant: an IPv6 entry is keyed by the whole address
MaskSizeWholeAddress(af) == IF af = AF_INET THEN IPV4_MASK_SIZE ELSE 2 * IPV6_MASK_SIZE

\* The bytes of the address that key an entry
MaskSize(af) == IF af = AF_INET THEN IPV4_MASK_SIZE ELSE IPV6_MASK_SIZE
Prefix(sa) == SubSeq(sa.addr, 1, MaskSize(sa.af))

\* The LIST_FOREACH test: same family and the same first MASK_SIZE bytes
EntryMatches(r, sa) == r.r_af = sa.af /\ r.r_addr = Prefix(sa)

\* Index of the first entry of list l that matches sa, 0 when none does
RECURSIVE FindEntry(_, _, _)
FindEntry(l, sa, i) ==
    IF i > Len(l) THEN 0
    ELSE IF EntryMatches(l[i], sa) THEN i
    ELSE FindEntry(l, sa, i + 1)

\* The list of the table that sa's prefix hashes to: key & rl_table_mask
Bucket(rl, sa) == siphash13(rl.rl_secret, sa.addr, MaskSize(sa.af)) % RATELIMIT_SIZE

\* Mutant: the bucket is refilled by nothing, whatever time has passed
allow_without_refill(rl, sa, t, alloc_ok) ==
    IF sa.af # AF_INET /\ sa.af # AF_INET6
    THEN [rl |-> rl, ret |-> ECONNREFUSED]
    ELSE
    LET b == Bucket(rl, sa)
        l == rl.rl_table[b]
        i == FindEntry(l, sa, 1)
    IN  IF i # 0
        THEN LET r == l[i]
                 tokens == IF r.r_tokens > TOKEN_MAX THEN TOKEN_MAX ELSE r.r_tokens
             IN  IF tokens >= INITIATION_COST
                 THEN [rl |-> [rl EXCEPT !.rl_table[b][i] =
                                  [r EXCEPT !.r_last_time = t,
                                            !.r_tokens = tokens - INITIATION_COST]],
                       ret |-> OK]
                 ELSE [rl |-> [rl EXCEPT !.rl_table[b][i] =
                                  [r EXCEPT !.r_last_time = t, !.r_tokens = tokens]],
                       ret |-> ECONNREFUSED]
        ELSE IF rl.rl_table_num >= RATELIMIT_SIZE_MAX
        THEN [rl |-> rl, ret |-> ECONNREFUSED]
        ELSE IF ~alloc_ok
        THEN [rl |-> rl, ret |-> ECONNREFUSED]
        ELSE LET r == [r_af |-> sa.af, r_addr |-> Prefix(sa), r_last_time |-> t,
                       r_tokens |-> TOKEN_MAX - INITIATION_COST]
             IN  [rl |-> ratelimit_gc_schedule(
                             [rl EXCEPT !.rl_table[b] = <<r>> \o l,
                                        !.rl_table_num = @ + 1], t),
                  ret |-> OK]

\* Mutant: a request is blocked when the tokens equal INITIATION_COST, as the
\* comment in the lookup loop has it
allow_strict_tokens(rl, sa, t, alloc_ok) ==
    IF sa.af # AF_INET /\ sa.af # AF_INET6
    THEN [rl |-> rl, ret |-> ECONNREFUSED]
    ELSE
    LET b == Bucket(rl, sa)
        l == rl.rl_table[b]
        i == FindEntry(l, sa, 1)
    IN  IF i # 0
        THEN LET r == l[i]
                 diff == t - r.r_last_time
                 sum == r.r_tokens + diff
                 tokens == IF sum > TOKEN_MAX THEN TOKEN_MAX ELSE sum
             IN  IF tokens > INITIATION_COST
                 THEN [rl |-> [rl EXCEPT !.rl_table[b][i] =
                                  [r EXCEPT !.r_last_time = t,
                                            !.r_tokens = tokens - INITIATION_COST]],
                       ret |-> OK]
                 ELSE [rl |-> [rl EXCEPT !.rl_table[b][i] =
                                  [r EXCEPT !.r_last_time = t, !.r_tokens = tokens]],
                       ret |-> ECONNREFUSED]
        ELSE IF rl.rl_table_num >= RATELIMIT_SIZE_MAX
        THEN [rl |-> rl, ret |-> ECONNREFUSED]
        ELSE IF ~alloc_ok
        THEN [rl |-> rl, ret |-> ECONNREFUSED]
        ELSE LET r == [r_af |-> sa.af, r_addr |-> Prefix(sa), r_last_time |-> t,
                       r_tokens |-> TOKEN_MAX - INITIATION_COST]
             IN  [rl |-> ratelimit_gc_schedule(
                             [rl EXCEPT !.rl_table[b] = <<r>> \o l,
                                        !.rl_table_num = @ + 1], t),
                  ret |-> OK]

\* Mutant: an entry is added however many the table holds
allow_without_cap(rl, sa, t, alloc_ok) ==
    IF sa.af # AF_INET /\ sa.af # AF_INET6
    THEN [rl |-> rl, ret |-> ECONNREFUSED]
    ELSE
    LET b == Bucket(rl, sa)
        l == rl.rl_table[b]
        i == FindEntry(l, sa, 1)
    IN  IF i # 0
        THEN LET r == l[i]
                 diff == t - r.r_last_time
                 sum == r.r_tokens + diff
                 tokens == IF sum > TOKEN_MAX THEN TOKEN_MAX ELSE sum
             IN  IF tokens >= INITIATION_COST
                 THEN [rl |-> [rl EXCEPT !.rl_table[b][i] =
                                  [r EXCEPT !.r_last_time = t,
                                            !.r_tokens = tokens - INITIATION_COST]],
                       ret |-> OK]
                 ELSE [rl |-> [rl EXCEPT !.rl_table[b][i] =
                                  [r EXCEPT !.r_last_time = t, !.r_tokens = tokens]],
                       ret |-> ECONNREFUSED]
        ELSE IF ~alloc_ok
        THEN [rl |-> rl, ret |-> ECONNREFUSED]
        ELSE LET r == [r_af |-> sa.af, r_addr |-> Prefix(sa), r_last_time |-> t,
                       r_tokens |-> TOKEN_MAX - INITIATION_COST]
             IN  [rl |-> ratelimit_gc_schedule(
                             [rl EXCEPT !.rl_table[b] = <<r>> \o l,
                                        !.rl_table_num = @ + 1], t),
                  ret |-> OK]

\* alloc_ok: whether uma_zalloc(M_NOWAIT) returns an entry
ratelimit_allow(rl, sa, t, alloc_ok) ==
    IF sa.af # AF_INET /\ sa.af # AF_INET6
    THEN [rl |-> rl, ret |-> ECONNREFUSED]
    ELSE
    LET b == Bucket(rl, sa)
        l == rl.rl_table[b]
        i == FindEntry(l, sa, 1)
    IN  IF i # 0
        THEN LET r == l[i]
                 diff == t - r.r_last_time
                 sum == r.r_tokens + diff
                 tokens == IF sum > TOKEN_MAX THEN TOKEN_MAX ELSE sum
             IN  IF tokens >= INITIATION_COST
                 THEN [rl |-> [rl EXCEPT !.rl_table[b][i] =
                                  [r EXCEPT !.r_last_time = t,
                                            !.r_tokens = tokens - INITIATION_COST]],
                       ret |-> OK]
                 ELSE [rl |-> [rl EXCEPT !.rl_table[b][i] =
                                  [r EXCEPT !.r_last_time = t, !.r_tokens = tokens]],
                       ret |-> ECONNREFUSED]
        ELSE IF rl.rl_table_num >= RATELIMIT_SIZE_MAX
        THEN [rl |-> rl, ret |-> ECONNREFUSED]
        ELSE IF ~alloc_ok
        THEN [rl |-> rl, ret |-> ECONNREFUSED]
        ELSE LET r == [r_af |-> sa.af, r_addr |-> Prefix(sa), r_last_time |-> t,
                       r_tokens |-> TOKEN_MAX - INITIATION_COST]
             IN  [rl |-> ratelimit_gc_schedule(
                             [rl EXCEPT !.rl_table[b] = <<r>> \o l,
                                        !.rl_table_num = @ + 1], t),
                  ret |-> OK]

\* Mutant: the family's table is asked before mac2 is compared
validate_busy_allow_first(c, rl4, rl6, our_mac1, mac2, buf, sa, t, draw, alloc_ok) ==
    LET mk == cookie_checker_make_cookie(c, sa, t, draw)
        our_mac2 == cookie_macs_mac2(our_mac1, buf, mk.cookie)
        a4 == ratelimit_allow(rl4, sa, t, alloc_ok)
        a6 == ratelimit_allow(rl6, sa, t, alloc_ok)
        made == [cc |-> mk.cc,
                 v4 |-> IF sa.af = AF_INET THEN a4.rl ELSE rl4,
                 v6 |-> IF sa.af = AF_INET6 THEN a6.rl ELSE rl6,
                 cookie |-> mk.cookie]
    IN  IF timingsafe_bcmp(our_mac2, mac2) # 0
        THEN made @@ [ret |-> EAGAIN]
        ELSE IF sa.af = AF_INET
        THEN made @@ [ret |-> a4.ret]
        ELSE IF sa.af = AF_INET6
        THEN made @@ [ret |-> a6.ret]
        ELSE made @@ [ret |-> EAFNOSUPPORT]

\* The busy path of cookie_checker_validate_macs, once mac1 has matched: mac2 is
\* checked against the cookie for sa, then the family's table decides.
\* rl4, rl6: the two static tables; the result carries both, the cookie and the Checker
validate_busy(c, rl4, rl6, our_mac1, mac2, buf, sa, t, draw, alloc_ok) ==
    LET mk == cookie_checker_make_cookie(c, sa, t, draw)
        our_mac2 == cookie_macs_mac2(our_mac1, buf, mk.cookie)
        made == [cc |-> mk.cc, v4 |-> rl4, v6 |-> rl6, cookie |-> mk.cookie]
    IN  IF timingsafe_bcmp(our_mac2, mac2) # 0
        THEN made @@ [ret |-> EAGAIN]
        ELSE IF sa.af = AF_INET
        THEN LET a == ratelimit_allow(rl4, sa, t, alloc_ok)
             IN  [made EXCEPT !.v4 = a.rl] @@ [ret |-> a.ret]
        ELSE IF sa.af = AF_INET6
        THEN LET a == ratelimit_allow(rl6, sa, t, alloc_ok)
             IN  [made EXCEPT !.v6 = a.rl] @@ [ret |-> a.ret]
        ELSE made @@ [ret |-> EAFNOSUPPORT]

\* Mutant: the busy flag is tested before mac1 is compared
validate_macs_busy_first(c, rl4, rl6, mac1, mac2, buf, busy, sa, t, draw, alloc_ok) ==
    LET our_mac1 == cookie_macs_mac1(buf, c.cc_mac1_key)
        same == [cc |-> c, v4 |-> rl4, v6 |-> rl6, cookie |-> ZeroCookie]
    IN  IF ~busy
        THEN same @@ [ret |-> OK]
        ELSE IF timingsafe_bcmp(our_mac1, mac1) # 0
        THEN same @@ [ret |-> EINVAL]
        ELSE validate_busy(c, rl4, rl6, our_mac1, mac2, buf, sa, t, draw, alloc_ok)

cookie_checker_validate_macs(c, rl4, rl6, mac1, mac2, buf, busy, sa, t, draw, alloc_ok) ==
    LET our_mac1 == cookie_macs_mac1(buf, c.cc_mac1_key)
        same == [cc |-> c, v4 |-> rl4, v6 |-> rl6, cookie |-> ZeroCookie]
    IN  IF timingsafe_bcmp(our_mac1, mac1) # 0
        THEN same @@ [ret |-> EINVAL]
        ELSE IF busy
        THEN validate_busy(c, rl4, rl6, our_mac1, mac2, buf, sa, t, draw, alloc_ok)
        ELSE same @@ [ret |-> OK]

----------------------------------------------------------------------------
(* Inputs *)

\* Precompute inputs (responder public keys); 0 stands for the NULL key pointer
Inputs == {1}
\* The input the Maker is set up with
MakerInputs == {1}
\* The handshake message the Maker sends, and the payloads a message may arrive with
Bufs == {"hello"}
WireBufs == Bufs \cup {"world"}
\* arc4random_buf's nonce, and the nonces a reply may arrive with
DrawnNonces == {1}
Nonces == {1, 2}

V4A == <<127, 0, 0, 1>>
V4B == <<127, 0, 1, 1>>
V4C == <<127, 0, 2, 0>>
V6A == <<32, 1, 13, 184, 0, 0, 0, 0, 0, 0, 0, 0, 0, 0, 0, 1>>
V6B == <<32, 1, 13, 184, 0, 0, 0, 0, 0, 0, 0, 0, 0, 0, 255, 255>>
V6C == <<32, 1, 13, 185, 0, 0, 0, 0, 0, 0, 0, 0, 0, 0, 0, 1>>

SockAddr(af, addr, port) == [af |-> af, addr |-> addr, port |-> port]

\* Source addresses of the cookie specification
CookieSAs == {SockAddr(AF_INET, V4A, 1)}
\* Source addresses of the secret-rotation specification
SecretSAs == {SockAddr(AF_INET6, V6A, 1), SockAddr(AF_UNIX, <<>>, 0)}
AllSAs == CookieSAs \cup SecretSAs

\* Source addresses of the token-bucket specification: one prefix
BucketSAs == {SockAddr(AF_INET, V4A, 1)}
\* Source addresses of the table specification: V4B and V4C hash to one list; V6A
\* and V6B share their first 64 bits
TableSAs ==
    {SockAddr(AF_INET, a, 1) : a \in {V4B, V4C}}
    \cup {SockAddr(AF_INET6, a, 1) : a \in {V6A, V6B}}

\* Source addresses of the capacity specification: one prefix more than a table holds
CapSAs == {SockAddr(AF_INET, a, 1) : a \in {V4A, V4B, V4C}}

\* Source addresses of the sweep specification
GcSAs == {SockAddr(AF_INET, a, 1) : a \in {V4A, V4B}}
\* Clock advances of the sweep specification, in ticks
GcSteps == {(ELEMENT_TIMEOUT * SBT_1S) \div 2, (ELEMENT_TIMEOUT * SBT_1S) \div 2 + 1}

\* Source addresses of the teardown specification
DeinitSAs == {SockAddr(AF_INET, V4A, 1), SockAddr(AF_INET6, V6A, 1)}

\* Address a with byte i changed
OtherByte(a, i) == [a EXCEPT ![i] = (@ + 1) % 256]
\* The bytes changed: each byte of an IPv4 address; of an IPv6 address the first
\* and the last byte of the first 64 bits and of the rest
ProbeBytes(sa) ==
    IF sa.af = AF_INET THEN 1 .. Len(sa.addr)
    ELSE {1, IPV6_MASK_SIZE, IPV6_MASK_SIZE + 1, Len(sa.addr)}
\* Source addresses the claims about prefixes ask about: those of the table
\* specification, each of them with one byte changed, and two more
ProbeSAs ==
    TableSAs \cup {SockAddr(AF_INET, V4A, 1), SockAddr(AF_INET6, V6C, 1)}
    \cup UNION {{[sa EXCEPT !.addr = OtherByte(sa.addr, i)] : i \in ProbeBytes(sa)} :
                    sa \in TableSAs}

\* Clock advances of the token-bucket specification, in ticks
BucketSteps == {1, INITIATION_COST, ELEMENT_TIMEOUT * SBT_1S}
\* Clock advances of the table specification, in ticks
TableSteps == {ELEMENT_TIMEOUT * SBT_1S + 1}

\* Clock advances of the cookie specification, in seconds
CookieSteps == {COOKIE_SECRET_MAX_AGE - 2 * COOKIE_SECRET_LATENCY, COOKIE_SECRET_MAX_AGE}

\* The clock readings of the freshness specification, in ticks from the instant
\* COOKIE_SECRET_MAX_AGE - COOKIE_SECRET_LATENCY after the Maker's cp_birthdate
FreshOffsets == {-1, 0, 1}

\* Uptime at which the Maker and the Checker are set up, in seconds
BootSeconds == {0, COOKIE_SECRET_MAX_AGE + COOKIE_SECRET_LATENCY}

----------------------------------------------------------------------------
(* Call log *)

Call(op, ret, busy, sa) == [op |-> op, ret |-> ret, busy |-> busy, sa |-> sa]
NoCall == Call(NONE, NONE, FALSE, NoSA)

\* The logged call computed a cookie (cookie_checker_make_cookie ran)
CookieMade(c) == c.op = "create" \/ (c.op = "validate" /\ c.busy /\ c.ret # EINVAL)

NoSeen == [t |-> -1, sa |-> NoSA, cookie |-> ZeroCookie, born |-> 0, gen |-> 0]

\* With `log`, the log may keep the first cookie it is shown, or wait for a later
\* one; c is the Checker as the call left it
Remember(log, sa, cookie, c) ==
    IF log /\ seen = NoSeen
    THEN seen' \in {NoSeen, [t |-> now, sa |-> sa, cookie |-> cookie,
                             born |-> c.cc_secret_birthdate, gen |-> c.cc_secret]}
    ELSE seen' = seen

\* The table cookie_checker_validate_macs hands to ratelimit_allow for sa
TableOf(sa) == IF sa.af = AF_INET THEN ratelimit_v4 ELSE ratelimit_v6

\* The entry of table rl that a lookup for sa finds, if any
EntryIndex(rl, sa) == FindEntry(rl.rl_table[Bucket(rl, sa)], sa, 1)
HasEntry(rl, sa) == EntryIndex(rl, sa) # 0
EntryOf(rl, sa) == rl.rl_table[Bucket(rl, sa)][EntryIndex(rl, sa)]

\* sa's prefix has no entry in rl, or one idle long enough at t to refill to capacity
FullBudget(rl, sa, t) ==
    HasEntry(rl, sa) =>
        EntryOf(rl, sa).r_tokens + (t - EntryOf(rl, sa).r_last_time) >= TOKEN_MAX

\* rl is below capacity and uma_zalloc returns an entry
CanInsert(rl, alloc_ok) == rl.rl_table_num < RATELIMIT_SIZE_MAX /\ alloc_ok

\* The log of ratelimit_allow calls: the prefix of the last call; the run of calls
\* allowed for it in a row at clock reading `start`, the first on a full budget
\* (`burst` of them, from the addresses `who`); and, when pacing is logged, whether
\* every call so far came at least INITIATION_COST after the one before and found
\* an entry or room for one (`paced`) and, as long as that is so, the time `prev` of
\* the last call and how many calls there were (`calls`, counted up to
\* INITIATIONS_BURSTABLE + 1)
NoHist ==
    [af |-> NONE, prefix |-> <<>>, start |-> -1, burst |-> 0, who |-> {},
     prev |-> -1, paced |-> TRUE, calls |-> 0]

\* The log after ratelimit_allow(rl, sa) returned ret at the current clock reading
Record(rl, sa, alloc_ok, ret, pace) ==
    LET same == hist.af = sa.af /\ hist.prefix = Prefix(sa)
        fresh == ret = OK /\ FullBudget(rl, sa, now)
        running == same /\ hist.start = now /\ hist.burst > 0
        spaced == hist.prev = -1 \/ now - hist.prev >= INITIATION_COST
        paced == /\ pace /\ hist.paced /\ spaced
                 /\ HasEntry(rl, sa) \/ CanInsert(rl, alloc_ok)
    IN  [af |-> sa.af,
         prefix |-> Prefix(sa),
         start |-> IF fresh THEN now ELSE IF running THEN hist.start ELSE -1,
         burst |-> IF fresh THEN 1
                   ELSE IF running THEN (IF ret = OK THEN hist.burst + 1 ELSE hist.burst)
                   ELSE 0,
         who |-> IF fresh THEN {sa} ELSE IF running THEN hist.who \cup {sa} ELSE {},
         prev |-> IF paced THEN now ELSE -1,
         paced |-> paced,
         calls |-> IF ~paced THEN 0
                   ELSE IF hist.calls <= INITIATIONS_BURSTABLE THEN hist.calls + 1
                   ELSE hist.calls]

\* What may arrive in place of handshake message m: m itself, m with a byte of
\* mac1 or of mac2 changed, m's MACs under another payload
Wire(m) ==
    {m, [m EXCEPT !.mac1.flip = TRUE], [m EXCEPT !.mac2.flip = TRUE]}
    \cup {[m EXCEPT !.buf = b] : b \in WireBufs}

\* What may arrive in place of cookie reply r: r itself, r with another nonce,
\* r with a byte of the encrypted cookie changed
WireReply(r) ==
    {r, [r EXCEPT !.ecookie.flip = TRUE]} \cup {[r EXCEPT !.nonce = n] : n \in Nonces}

\* The reference table: the IPv4 table as cookie_init leaves it; `same`: every
\* verdict so far was the verdict of the swept table; `back`: the last call put
\* back an entry that a sweep had removed
NoRef == [rl |-> ratelimit_init(0), same |-> TRUE, back |-> FALSE]

\* cookie_deinit has not been called: ratelimit_zone is the zone cookie_init made.
\* pc is cookie_deinit's position; stale counts the entries handed to uma_zfree
\* after uma_zdestroy; left counts the entries still allocated at uma_zdestroy;
\* cut: a ratelimit_deinit found a callout that had fired and waited for the lock
NoTeardown == [pc |-> "run", zone |-> TRUE, stale |-> 0, left |-> 0, cut |-> FALSE]

\* The threads that may call into one Maker at the same time
Threads == {1, 2}
Idle == [pc |-> "idle", buf |-> "", mac1 |-> ZeroMac1, raced |-> FALSE]
NoThreads == [t \in Threads |-> Idle]
\* rw lock: the set of threads holding it shared and the thread holding it
\* exclusively (0 for none)
Unlocked == [readers |-> {}, writer |-> 0]

----------------------------------------------------------------------------
(* Actions *)

\* cookie_init, cookie_maker_init and cookie_checker_init have run; c is the Checker
InitWith(c) ==
    /\ now \in {s * SBT_1S : s \in BootSeconds}
    /\ \E key \in MakerInputs : cp = cookie_maker_init(key)
    /\ cc = c
    /\ ratelimit_v4 = ratelimit_init(0)
    /\ ratelimit_v6 = ratelimit_init(1)
    /\ msg = NoMsg
    /\ reply = NoReply
    /\ ndraws = 0
    /\ last = NoCall
    /\ seen = NoSeen
    /\ hist = NoHist
    /\ ref = NoRef
    /\ life = NoTeardown
    /\ thr = NoThreads
    /\ cp_lock = Unlocked

Init == InitWith(cookie_checker_init)

CheckerUpdate ==
    \E key \in Inputs \cup {0} :
        /\ cc' = cookie_checker_update(cc, key)
        /\ last' = Call("update", OK, FALSE, NoSA)
        /\ UNCHANGED <<now, cp, ratelimit_v4, ratelimit_v6, msg, reply, ndraws, seen, hist, rest>>

MakerMac ==
    \E buf \in Bufs :
        LET r == cookie_maker_mac(cp, buf, now)
        IN  /\ cp' = r.cp
            /\ msg' = [buf |-> buf, mac1 |-> r.mac1, mac2 |-> r.mac2]
            /\ last' = Call("mac", OK, FALSE, NoSA)
            /\ UNCHANGED <<now, cc, ratelimit_v4, ratelimit_v6, reply, ndraws, seen, hist, rest>>

\* A family other than AF_INET and AF_INET6 gets random bytes for a cookie
RandomCookie(sa) == sa.af # AF_INET /\ sa.af # AF_INET6

\* cookie_checker_validate_macs on message m at the current state
ValidateCall(m, busy, sa, alloc_ok) ==
    cookie_checker_validate_macs(cc, ratelimit_v4, ratelimit_v6,
        m.mac1, m.mac2, m.buf, busy, sa, now, ndraws + 1, alloc_ok)

ValidateMacs(SAs, log) ==
    /\ msg # NoMsg
    /\ \E m \in Wire(msg), busy \in BOOLEAN, sa \in SAs, alloc_ok \in BOOLEAN :
        LET r == ValidateCall(m, busy, sa, alloc_ok)
            made == r.ret # EINVAL /\ busy
            drawn == made /\ RandomCookie(sa)
        IN  /\ drawn => ndraws < MaxDraws
            /\ ndraws' = IF drawn THEN ndraws + 1 ELSE ndraws
            /\ cc' = r.cc
            /\ ratelimit_v4' = r.v4
            /\ ratelimit_v6' = r.v6
            /\ last' = Call("validate", r.ret, busy, sa)
            /\ IF made
               THEN Remember(log, sa, r.cookie, r.cc)
               ELSE seen' = seen
            /\ UNCHANGED <<now, cp, msg, reply, hist, rest>>

\* cookie_checker_create_payload for the Maker's message at the current state
CreateCall(mac1, nonce, sa) ==
    cookie_checker_create_payload(cc, mac1, nonce, sa, now, ndraws + 1)

\* cookie_maker_consume_payload of reply rp at the current state
ConsumeCall(rp) == cookie_maker_consume_payload(cp, rp.nonce, rp.ecookie, now)

CreatePayload(SAs, log) ==
    /\ msg # NoMsg
    /\ \E mac1 \in {msg.mac1}, sa \in SAs, nonce \in DrawnNonces :
        LET r == CreateCall(mac1, nonce, sa)
        IN  /\ RandomCookie(sa) => ndraws < MaxDraws
            /\ ndraws' = IF RandomCookie(sa) THEN ndraws + 1 ELSE ndraws
            /\ cc' = r.cc
            /\ reply' = [nonce |-> r.nonce, ecookie |-> r.ecookie]
            /\ last' = Call("create", OK, FALSE, sa)
            /\ Remember(log, sa, r.cookie, r.cc)
            /\ UNCHANGED <<now, cp, ratelimit_v4, ratelimit_v6, msg, hist, rest>>

ConsumePayload ==
    /\ reply # NoReply
    /\ \E rp \in WireReply(reply) :
        LET r == ConsumeCall(rp)
        IN  /\ cp' = r.cp
            /\ last' = Call("consume", r.ret, FALSE, NoSA)
            /\ UNCHANGED <<now, cc, ratelimit_v4, ratelimit_v6, msg, reply, ndraws, seen, hist, rest>>

\* The callout of a table fires once it is due (it may fire late)
GcCallout4 ==
    /\ ratelimit_v4.rl_gc_pending
    /\ now >= ratelimit_v4.rl_gc_time
    /\ ratelimit_v4' = ratelimit_gc_callout(ratelimit_v4, now)
    /\ last' = Call("gc", NONE, FALSE, NoSA)
    /\ UNCHANGED <<now, cp, cc, ratelimit_v6, msg, reply, ndraws, seen, hist, rest>>

GcCallout6 ==
    /\ ratelimit_v6.rl_gc_pending
    /\ now >= ratelimit_v6.rl_gc_time
    /\ ratelimit_v6' = ratelimit_gc_callout(ratelimit_v6, now)
    /\ last' = Call("gc", NONE, FALSE, NoSA)
    /\ UNCHANGED <<now, cp, cc, ratelimit_v4, msg, reply, ndraws, seen, hist, rest>>

\* The clock advances by d ticks, up to limit
Tick(d, limit) ==
    /\ now + d <= limit
    /\ now' = now + d
    /\ last' = Call("tick", NONE, FALSE, NoSA)
    /\ UNCHANGED <<cp, cc, ratelimit_v4, ratelimit_v6, msg, reply, ndraws, seen, hist, rest>>

CookieTick == \E s \in CookieSteps : Tick(s * SBT_1S, MaxSeconds * SBT_1S)
\* No pending callout is more than MaxGcDelay ticks overdue d ticks from now
GcTimely(d) ==
    \A rl \in {ratelimit_v4, ratelimit_v6} :
        rl.rl_gc_pending => now + d <= rl.rl_gc_time + MaxGcDelay

BucketTick == \E d \in BucketSteps : GcTimely(d) /\ Tick(d, MaxBucketTicks)
TableTick == \E d \in TableSteps : GcTimely(d) /\ Tick(d, MaxTableTicks)

\* cookie_checker_validate_macs on the busy path, from the point where mac1 and mac2
\* have matched: the table of sa's family is asked by ratelimit_allow
RatelimitAllow(SAs, pace) ==
    \E sa \in SAs, alloc_ok \in BOOLEAN :
        LET rl == TableOf(sa)
            r == ratelimit_allow(rl, sa, now, alloc_ok)
        IN  /\ IF sa.af = AF_INET
               THEN ratelimit_v4' = r.rl /\ ratelimit_v6' = ratelimit_v6
               ELSE ratelimit_v6' = r.rl /\ ratelimit_v4' = ratelimit_v4
            /\ last' = Call("allow", r.ret, TRUE, sa)
            /\ hist' = Record(rl, sa, alloc_ok, r.ret, pace)
            /\ UNCHANGED <<now, cp, cc, msg, reply, ndraws, seen, rest>>

Next ==
    \/ CheckerUpdate
    \/ MakerMac
    \/ ValidateMacs(CookieSAs, FALSE)
    \/ CreatePayload(CookieSAs, FALSE)
    \/ ConsumePayload
    \/ GcCallout4
    \/ CookieTick

Spec == Init /\ [][Next]_vars

\* The Checker's secret rotation, with the log of an earlier cookie switched on
NextSecret ==
    \/ MakerMac
    \/ ValidateMacs(SecretSAs, TRUE)
    \/ CreatePayload(SecretSAs, TRUE)
    \/ CookieTick

\* The Checker has been given the Maker's input by cookie_checker_update
InitSecret == \E key \in MakerInputs : InitWith(cookie_checker_update(cookie_checker_init, key))

SpecSecret == InitSecret /\ [][NextSecret]_vars

\* The rate limiter starts empty, at boot
InitLimiter == InitWith(cookie_checker_init) /\ now = 0

\* The token bucket of one prefix, tick by tick, with pacing logged
NextBucket ==
    \/ RatelimitAllow(BucketSAs, TRUE)
    \/ GcCallout4
    \/ BucketTick

SpecBucket == InitLimiter /\ [][NextBucket]_vars

\* The two tables with several prefixes each
NextTable ==
    \/ RatelimitAllow(TableSAs, FALSE)
    \/ GcCallout4
    \/ GcCallout6
    \/ TableTick

SpecTable == InitLimiter /\ [][NextTable]_vars

----------------------------------------------------------------------------
(* Claims about the Maker and the Checker, under Spec *)

\* The Maker and the Checker hold keys precomputed from the same input
SameInput ==
    \E key \in Inputs :
        /\ cp.cp_mac1_key = cookie_precompute_key(key, COOKIE_MAC1_KEY_LABEL)
        /\ cp.cp_cookie_key = cookie_precompute_key(key, COOKIE_COOKIE_KEY_LABEL)
        /\ cc.cc_mac1_key = cp.cp_mac1_key
        /\ cc.cc_cookie_key = cp.cp_cookie_key

\* C1: whatever arrives, with any busy flag and from any source address,
\* validate_macs returns EINVAL when its mac1 is not the mac1 of its payload under
\* the Checker's key; and the Maker's own message passes with busy = false when
\* the Maker and the Checker were set up from the same input.
C1_Mac1DecidesFirst ==
    msg # NoMsg =>
    \A m \in Wire(msg), busy \in BOOLEAN, sa \in AllSAs, alloc_ok \in BOOLEAN :
        LET r == ValidateCall(m, busy, sa, alloc_ok)
        IN  /\ m.mac1 # cookie_macs_mac1(m.buf, cc.cc_mac1_key) => r.ret = EINVAL
            /\ (m = msg /\ ~busy /\ SameInput) => r.ret = OK

\* A tampered message was dropped on the busy path by a Checker with the Maker's input
C1_Witness ==
    /\ last.op = "validate" /\ last.ret = EINVAL /\ last.busy
    /\ SameInput

\* Cookie c is the cookie the Checker computes for sa under its secret number g
IssuedUnder(c, sa, g) ==
    /\ ~RandomCookie(sa)
    /\ c = blake2s_cookie(g, sa)

\* The Maker holds a cookie younger than SECRET_MAX_AGE - SECRET_LATENCY
MakerCookieFresh ==
    /\ cp.cp_cookie # ZeroCookie
    /\ now - cp.cp_birthdate < (COOKIE_SECRET_MAX_AGE - COOKIE_SECRET_LATENCY) * SBT_1S

\* The message on the wire carries the mac2 the Maker computed from its cookie
CarriesCookie == msg # NoMsg /\ msg.mac2 = cookie_macs_mac2(msg.mac1, msg.buf, cp.cp_cookie)

\* The reply the Checker creates for the Maker's pending message is accepted
ReplyAccepted ==
    (msg # NoMsg /\ cp.cp_mac1_valid /\ SameInput) =>
    \A sa \in AllSAs, nonce \in DrawnNonces :
        LET rp == CreateCall(msg.mac1, nonce, sa)
            r == ConsumeCall(rp)
        IN  /\ r.ret = OK
            /\ r.cp.cp_cookie = rp.cookie
            /\ r.cp.cp_birthdate = now

\* While its cookie is fresh the Maker's apply_macs computes mac2 from it
FreshCookieUsed ==
    MakerCookieFresh =>
    \A buf \in WireBufs :
        LET r == cookie_maker_mac(cp, buf, now)
        IN  r.mac2 = cookie_macs_mac2(r.mac1, buf, cp.cp_cookie)

\* The original statement of C2: once the Maker has consumed a cookie the Checker
\* issued for sa (under any of its secrets so far), then while that cookie is fresh
\* the Maker's message with mac2 is never answered NeedCookie from sa under load.
C2_Original ==
    /\ ReplyAccepted
    /\ FreshCookieUsed
    /\ \A sa \in AllSAs, alloc_ok \in BOOLEAN :
          (/\ CarriesCookie /\ MakerCookieFresh /\ SameInput
           /\ \E g \in 0 .. cc.cc_secret : IssuedUnder(cp.cp_cookie, sa, g))
          => ValidateCall(msg, TRUE, sa, alloc_ok).ret \in {OK, ECONNREFUSED}

\* C2 (amended): the reply created for the Maker's pending message is accepted; a
\* fresh cookie is used for mac2; and the Maker's message with mac2 from a fresh
\* cookie issued for an IPv4 or IPv6 sa gets Ok or the rate-limit verdict from that
\* sa under load, provided the Checker's secret the cookie was made from is still
\* the current one and is at most SECRET_MAX_AGE old at validation.
C2_ExchangeCompletes ==
    /\ ReplyAccepted
    /\ FreshCookieUsed
    /\ \A sa \in AllSAs, alloc_ok \in BOOLEAN :
          (/\ CarriesCookie /\ MakerCookieFresh /\ SameInput
           /\ IssuedUnder(cp.cp_cookie, sa, cc.cc_secret)
           /\ now - cc.cc_secret_birthdate <= COOKIE_SECRET_MAX_AGE * SBT_1S)
          => ValidateCall(msg, TRUE, sa, alloc_ok).ret \in {OK, ECONNREFUSED}

\* An exchange completed: a message with mac2 from a consumed cookie passed under
\* load, some time after the cookie was consumed
C2_Witness ==
    /\ last.op = "validate" /\ last.ret = OK /\ last.busy
    /\ CarriesCookie
    /\ cp.cp_cookie.kind = "hash"
    /\ now > cp.cp_birthdate

\* The encrypted cookie of reply rp was sealed under the Maker's cookie key (by a
\* Checker with the Maker's input) for the mac1 the Maker emitted last, and arrives
\* as it was sent
Genuine(rp) ==
    /\ msg # NoMsg
    /\ ~rp.ecookie.flip
    /\ rp.ecookie.nonce = rp.nonce
    /\ rp.ecookie.key = cp.cp_cookie_key
    /\ rp.ecookie.ad = cp.cp_mac1_last

C4_Step ==
    /\ (msg = NoMsg) => ~cp.cp_mac1_valid
    /\ (last'.op = "consume" /\ last'.ret = OK) => ~cp'.cp_mac1_valid
    /\ (~cp.cp_mac1_valid /\ last'.op # "mac") => ~cp'.cp_mac1_valid
    /\ ~cp.cp_mac1_valid =>
          \A rp \in WireReply(reply) : ConsumeCall(rp) = [cp |-> cp, ret |-> ETIMEDOUT]
    /\ (~cp.cp_mac1_valid /\ last'.op = "consume") => (last'.ret = ETIMEDOUT /\ cp' = cp)

C4_CookieInvalidation == [][C4_Step]_vars

\* A second reply was refused after a cookie had been installed
C4_Witness ==
    /\ last.op = "consume" /\ last.ret = ETIMEDOUT
    /\ cp.cp_cookie # ZeroCookie

\* C5: a Maker that has never installed a cookie emits an all-zero mac2.
C5_NoCookieZeroMac2 ==
    (last.op = "mac" /\ cp.cp_cookie = ZeroCookie) => msg.mac2 = ZeroMac2

C17_State ==
    msg # NoMsg =>
    \A m \in Wire(msg), busy \in BOOLEAN, sa \in AllSAs, alloc_ok \in BOOLEAN :
        LET r == ValidateCall(m, busy, sa, alloc_ok)
        IN  /\ (r.ret = EINVAL \/ r.ret = EAGAIN \/ ~busy) =>
                  (r.v4 = ratelimit_v4 /\ r.v6 = ratelimit_v6)
            /\ (r.v4 # ratelimit_v4 \/ r.v6 # ratelimit_v6) =>
                  /\ busy
                  /\ m.mac1 = cookie_macs_mac1(m.buf, cc.cc_mac1_key)
                  /\ m.mac2 = cookie_macs_mac2(m.mac1, m.buf, r.cookie)

C17_Step ==
    (last'.op = "validate" /\ (last'.ret = EINVAL \/ last'.ret = EAGAIN \/ ~last'.busy)) =>
        (ratelimit_v4' = ratelimit_v4 /\ ratelimit_v6' = ratelimit_v6)

\* C17: a cookie_checker_validate_macs call that returns EINVAL or EAGAIN, or is
\* made with busy = 0, leaves both rate-limit tables (entries, tokens, last times,
\* count, pending callout) as they were; a call changes a table only with busy set,
\* mac1 matching the payload under the Checker's key and mac2 matching the cookie
\* for sa.
C17_LimiterOnlyWhenAuthenticated == []C17_State /\ [][C17_Step]_vars

\* A message without a valid mac2 came under load from a source that has an entry,
\* and was answered EAGAIN
C17_Witness ==
    /\ last.op = "validate" /\ last.busy /\ last.ret = EAGAIN
    /\ HasEntry(ratelimit_v4, last.sa)

----------------------------------------------------------------------------
(* Claims about the Maker's freshness test, under SpecFresh *)

\* The clock advances to an instant next to the end of the Maker's freshness window
FreshTick ==
    \E e \in FreshOffsets :
        LET t == cp.cp_birthdate
                     + (COOKIE_SECRET_MAX_AGE - COOKIE_SECRET_LATENCY) * SBT_1S + e
        IN  t > now /\ Tick(t - now, MaxSeconds * SBT_1S)

\* The cookie exchange around the end of the freshness window
NextFresh ==
    \/ MakerMac
    \/ CreatePayload(CookieSAs, FALSE)
    \/ ConsumePayload
    \/ FreshTick

SpecFresh == InitSecret /\ [][NextFresh]_vars

\* The age of the Maker's cookie, in ticks
CookieAge == now - cp.cp_birthdate

\* apply_macs computes mac2 from the stored cookie exactly when `fresh`, and
\* otherwise writes an all-zero mac2: the message just made, and any made now
Mac2FromCookieIff(fresh) ==
    /\ last.op = "mac" =>
          msg.mac2 = IF fresh THEN cookie_macs_mac2(msg.mac1, msg.buf, cp.cp_cookie)
                     ELSE ZeroMac2
    /\ \A buf \in WireBufs :
          LET r == cookie_maker_mac(cp, buf, now)
          IN  r.mac2 = IF fresh THEN cookie_macs_mac2(r.mac1, buf, cp.cp_cookie)
                       ELSE ZeroMac2

\* The original statement of C15: mac2 is computed from the stored cookie exactly
\* when now - cp_birthdate < SECRET_MAX_AGE - SECRET_LATENCY, and is all zero
\* otherwise, the instant of equality included.
C15_Original ==
    Mac2FromCookieIff(
        CookieAge < (COOKIE_SECRET_MAX_AGE - COOKIE_SECRET_LATENCY) * SBT_1S)

\* C15 (amended): mac2 is computed from the stored cookie exactly when
\* now - cp_birthdate <= SECRET_MAX_AGE - SECRET_LATENCY, the instant of equality
\* included, and is all zero when the difference is greater.
C15_FreshnessBoundary ==
    Mac2FromCookieIff(
        CookieAge <= (COOKIE_SECRET_MAX_AGE - COOKIE_SECRET_LATENCY) * SBT_1S)

\* apply_macs ran exactly SECRET_MAX_AGE - SECRET_LATENCY after a cookie was
\* consumed, and used it
C15_Witness ==
    /\ last.op = "mac"
    /\ cp.cp_cookie.kind = "hash"
    /\ CookieAge = (COOKIE_SECRET_MAX_AGE - COOKIE_SECRET_LATENCY) * SBT_1S
    /\ msg.mac2 = cookie_macs_mac2(msg.mac1, msg.buf, cp.cp_cookie)

----------------------------------------------------------------------------
(* Claims about the Maker's lock, under SpecMaker *)

\* The threads inside cookie_maker_mac or cookie_maker_consume_payload
Inside == {t \in Threads : thr[t].pc # "idle"}
\* The threads in the middle of memcpy(cp->cp_mac1_last, ...)
Copying == {t \in Threads : thr[t].pc = "copy"}

\* What two memcpy calls running at once may leave in cp_mac1_last besides the
\* bytes of one of them: some bytes of each
TornMac1 == [kind |-> "torn", key |-> ZeroKey, buf |-> "", flip |-> FALSE]

\* cookie_maker_mac, thread t: rw_rlock(&cp->cp_lock), granted unless a thread holds
\* the lock exclusively, then cookie_macs_mac1 into cm
MacEnter(t) ==
    /\ thr[t].pc = "idle"
    /\ cp_lock.writer = 0
    /\ \E buf \in WireBufs :
          thr' = [thr EXCEPT ![t] = [pc |-> "mac1", buf |-> buf,
                                     mac1 |-> cookie_macs_mac1(buf, cp.cp_mac1_key),
                                     raced |-> FALSE]]
    /\ cp_lock' = [cp_lock EXCEPT !.readers = @ \cup {t}]
    /\ UNCHANGED <<now, cp, cc, ratelimit_v4, ratelimit_v6, msg, reply, ndraws, last, seen,
                   hist, ref, life>>

\* memcpy(cp->cp_mac1_last, cm->mac1, COOKIE_MAC_SIZE) begins; it races with any
\* other thread's memcpy that is under way
MacCopyBegin(t) ==
    /\ thr[t].pc = "mac1"
    /\ thr' = [u \in Threads |->
                 IF u = t THEN [thr[u] EXCEPT !.pc = "copy", !.raced = Copying # {}]
                 ELSE IF u \in Copying THEN [thr[u] EXCEPT !.raced = TRUE]
                 ELSE thr[u]]
    /\ UNCHANGED <<now, cp, cc, ratelimit_v4, ratelimit_v6, msg, reply, ndraws, last, seen,
                   hist, ref, life, cp_lock>>

\* The memcpy ends: cp_mac1_last holds this thread's mac1, or, after a race, what
\* the racing copies left
MacCopyEnd(t) ==
    /\ thr[t].pc = "copy"
    /\ \E m \in IF thr[t].raced
                 THEN {thr[u].mac1 : u \in Inside} \cup {TornMac1}
                 ELSE {thr[t].mac1} :
          cp' = [cp EXCEPT !.cp_mac1_last = m]
    /\ thr' = [thr EXCEPT ![t].pc = "valid"]
    /\ UNCHANGED <<now, cc, ratelimit_v4, ratelimit_v6, msg, reply, ndraws, last, seen,
                   hist, ref, life, cp_lock>>

\* cp->cp_mac1_valid = true
MacValid(t) ==
    /\ thr[t].pc = "valid"
    /\ cp' = [cp EXCEPT !.cp_mac1_valid = TRUE]
    /\ thr' = [thr EXCEPT ![t].pc = "mac2"]
    /\ UNCHANGED <<now, cc, ratelimit_v4, ratelimit_v6, msg, reply, ndraws, last, seen,
                   hist, ref, life, cp_lock>>

\* mac2 from the cookie or zeroed, rw_runlock, and the message goes out
MacExit(t) ==
    /\ thr[t].pc = "mac2"
    /\ msg' = [buf |-> thr[t].buf, mac1 |-> thr[t].mac1,
               mac2 |-> IF ~cookie_timer_expired(now, cp.cp_birthdate,
                               COOKIE_SECRET_MAX_AGE - COOKIE_SECRET_LATENCY, 0)
                        THEN cookie_macs_mac2(thr[t].mac1, thr[t].buf, cp.cp_cookie)
                        ELSE ZeroMac2]
    /\ thr' = [thr EXCEPT ![t] = Idle]
    /\ cp_lock' = [cp_lock EXCEPT !.readers = @ \ {t}]
    /\ last' = Call("mac", OK, FALSE, NoSA)
    /\ UNCHANGED <<now, cp, cc, ratelimit_v4, ratelimit_v6, reply, ndraws, seen, hist,
                   ref, life>>

\* cookie_maker_consume_payload, thread t: rw_wlock(&cp->cp_lock), granted when no
\* thread holds the lock
ConsumeEnter(t) ==
    /\ thr[t].pc = "idle"
    /\ reply # NoReply
    /\ cp_lock = Unlocked
    /\ cp_lock' = [cp_lock EXCEPT !.writer = t]
    /\ thr' = [thr EXCEPT ![t].pc = "consume"]
    /\ UNCHANGED <<now, cp, cc, ratelimit_v4, ratelimit_v6, msg, reply, ndraws, last, seen,
                   hist, ref, life>>

\* The body of cookie_maker_consume_payload and rw_wunlock
ConsumeExit(t) ==
    /\ thr[t].pc = "consume"
    /\ \E rp \in WireReply(reply) :
          LET r == ConsumeCall(rp)
          IN  /\ cp' = r.cp
              /\ last' = Call("consume", r.ret, FALSE, NoSA)
    /\ thr' = [thr EXCEPT ![t] = Idle]
    /\ cp_lock' = Unlocked
    /\ UNCHANGED <<now, cc, ratelimit_v4, ratelimit_v6, msg, reply, ndraws, seen, hist,
                   ref, life>>

\* Two threads calling into one Maker, and the Checker answering its messages
NextMaker ==
    \/ \E t \in Threads : MacEnter(t)
    \/ \E t \in Threads : MacCopyBegin(t)
    \/ \E t \in Threads : MacCopyEnd(t)
    \/ \E t \in Threads : MacValid(t)
    \/ \E t \in Threads : MacExit(t)
    \/ \E t \in Threads : ConsumeEnter(t)
    \/ \E t \in Threads : ConsumeExit(t)
    \/ CreatePayload(CookieSAs, FALSE)

SpecMaker == InitSecret /\ [][NextMaker]_vars

\* C14: at most one thread is inside cookie_maker_mac or
\* cookie_maker_consume_payload on the Maker at any time, and cp_mac1_last is
\* always the mac1 of one whole cookie_maker_mac call (or the zero of
\* cookie_maker_init), never bytes of two.
C14_MakerExclusive ==
    /\ Cardinality(Inside) <= 1
    /\ cp.cp_mac1_last # TornMac1
    /\ cp.cp_mac1_last \in
           {ZeroMac1} \cup {cookie_macs_mac1(buf, cp.cp_mac1_key) : buf \in WireBufs}


----------------------------------------------------------------------------
(* Claims about the Checker's secret, under SpecSecret *)

\* cookie_for(sa) at the current state: what cookie_checker_make_cookie returns and
\* how it leaves the Checker
CookieFor(sa) == cookie_checker_make_cookie(cc, sa, now, ndraws + 1)

\* The log holds an earlier cookie
Seen == seen # NoSeen

C6_State ==
    /\ \A sa \in AllSAs :
          LET r == CookieFor(sa)
          IN  /\ now - r.cc.cc_secret_birthdate <= COOKIE_SECRET_MAX_AGE * SBT_1S
              /\ r.cc.cc_secret_birthdate <= now
              /\ ~RandomCookie(sa) => r.cookie = blake2s_cookie(r.cc.cc_secret, sa)
    /\ CookieMade(last) =>
          /\ now - cc.cc_secret_birthdate <= COOKIE_SECRET_MAX_AGE * SBT_1S
          /\ cc.cc_secret_birthdate <= now
    /\ (Seen /\ now > seen.t + COOKIE_SECRET_MAX_AGE * SBT_1S) =>
          LET r == CookieFor(seen.sa)
          IN  /\ r.cc.cc_secret # seen.gen
              /\ r.cookie # seen.cookie

C6_Step ==
    /\ cc'.cc_secret # cc.cc_secret =>
          (CookieMade(last') /\ cc'.cc_secret_birthdate = now')
    /\ cc'.cc_secret = cc.cc_secret => cc'.cc_secret_birthdate = cc.cc_secret_birthdate

\* C6: every cookie is computed from a secret at most SECRET_MAX_AGE old; the
\* secret changes only in a cookie computation, which sets secret_birthdate to the
\* time of that refresh, and secret_birthdate changes at no other time; and a
\* cookie_for call more than SECRET_MAX_AGE after an earlier one for the same sa
\* uses another secret generation and returns another cookie.
C6_SecretRotation == []C6_State /\ [][C6_Step]_vars

\* A cookie was computed for the logged sa more than SECRET_MAX_AGE after the logged
\* one, by a call that refreshed the secret
C6_Witness ==
    /\ Seen /\ CookieMade(last) /\ last.sa = seen.sa
    /\ ~RandomCookie(seen.sa)
    /\ now > seen.t + COOKIE_SECRET_MAX_AGE * SBT_1S
    /\ cc.cc_secret_birthdate = now
    /\ cc.cc_secret > seen.gen

\* The original statement of C7: a cookie_for call for the logged sa less than
\* SECRET_MAX_AGE after the logged call returns the logged cookie.
C7_Original ==
    (Seen /\ ~RandomCookie(seen.sa) /\ now < seen.t + COOKIE_SECRET_MAX_AGE * SBT_1S) =>
        CookieFor(seen.sa).cookie = seen.cookie

\* C7 (amended): for an IPv4 or IPv6 sa, a cookie_for call made no later than
\* SECRET_MAX_AGE after the birthdate of the secret the logged call used returns the
\* logged cookie.
C7_CookieStability ==
    (Seen /\ ~RandomCookie(seen.sa)
          /\ now <= seen.born + COOKIE_SECRET_MAX_AGE * SBT_1S) =>
        /\ CookieFor(seen.sa).cookie = seen.cookie
        /\ CookieFor(seen.sa).cc = cc

\* A later call for the logged sa computed its cookie from the logged call's secret
C7_Witness ==
    /\ Seen /\ CookieMade(last) /\ last.sa = seen.sa
    /\ ~RandomCookie(seen.sa)
    /\ now > seen.t
    /\ cc.cc_secret = seen.gen
    /\ seen.gen > 0


\* C13: on the busy path a message whose mac1 matches, from a source whose family
\* is neither AF_INET nor AF_INET6, gets EAFNOSUPPORT and not EAGAIN.
C13_UnsupportedFamily ==
    /\ msg # NoMsg =>
          \A m \in Wire(msg), sa \in AllSAs, alloc_ok \in BOOLEAN :
              (RandomCookie(sa) /\ m.mac1 = cookie_macs_mac1(m.buf, cc.cc_mac1_key)) =>
                  ValidateCall(m, TRUE, sa, alloc_ok).ret = EAFNOSUPPORT
    /\ (last.op = "validate" /\ last.busy /\ RandomCookie(last.sa) /\ last.ret # EINVAL) =>
          last.ret = EAFNOSUPPORT

\* C18: a cookie computed for an IPv4 or IPv6 source is never keyed with the
\* all-zero secret that cookie_checker_init leaves.
C18_NoZeroSecretCookie ==
    (CookieMade(last) /\ ~RandomCookie(last.sa)) =>
        /\ cc.cc_secret # cookie_checker_init.cc_secret
        /\ \A sa \in AllSAs :
              ~RandomCookie(sa) =>
                  CookieFor(sa).cookie # blake2s_cookie(cookie_checker_init.cc_secret, sa)

----------------------------------------------------------------------------
(* Claims about the token bucket, under SpecBucket *)

\* The verdicts of consecutive ratelimit_allow calls on rl at clock reading t, one
\* for each address of the sequence sas
RECURSIVE AllowSeq(_, _, _, _)
AllowSeq(rl, sas, t, alloc_ok) ==
    IF sas = <<>> THEN <<>>
    ELSE LET r == ratelimit_allow(rl, Head(sas), t, alloc_ok)
         IN  <<r.ret>> \o AllowSeq(r.rl, Tail(sas), t, alloc_ok)

Repeat(x, n) == [i \in 1 .. n |-> x]

\* INITIATIONS_BURSTABLE calls allowed, the next refused
BurstVerdicts == Repeat(OK, INITIATIONS_BURSTABLE) \o <<ECONNREFUSED>>

C9_SteadyState ==
    /\ (last.op = "allow" /\ hist.paced) => last.ret = OK
    /\ \A sa \in BucketSAs, alloc_ok \in BOOLEAN :
          (/\ hist.paced
           /\ hist.prev = -1 \/ now - hist.prev >= INITIATION_COST
           /\ HasEntry(TableOf(sa), sa) \/ CanInsert(TableOf(sa), alloc_ok))
          => ratelimit_allow(TableOf(sa), sa, now, alloc_ok).ret = OK

\* More than INITIATIONS_BURSTABLE paced calls were made, the last one just now,
\* and a GC sweep has run since the entry was inserted
C9_Witness ==
    /\ last.op = "allow" /\ last.ret = OK
    /\ hist.paced /\ hist.calls > INITIATIONS_BURSTABLE
    /\ ratelimit_v4.rl_gc_time > ELEMENT_TIMEOUT * SBT_1S

----------------------------------------------------------------------------
(* Claims about the rate-limit tables, under SpecTable *)

\* No two entries of rl have the same family and prefix
NoDuplicates(rl) ==
    \A b1, b2 \in 0 .. RATELIMIT_SIZE - 1 :
        \A i \in 1 .. Len(rl.rl_table[b1]), j \in 1 .. Len(rl.rl_table[b2]) :
            (/\ rl.rl_table[b1][i].r_af = rl.rl_table[b2][j].r_af
             /\ rl.rl_table[b1][i].r_addr = rl.rl_table[b2][j].r_addr)
            => (b1 = b2 /\ i = j)

\* a and b are IPv6 addresses that agree in their first 64 bits
SameSlash64(a, b) ==
    /\ a.af = AF_INET6 /\ b.af = AF_INET6
    /\ SubSeq(a.addr, 1, 8) = SubSeq(b.addr, 1, 8)

\* a and b are different IPv4 addresses
OtherV4(a, b) == a.af = AF_INET /\ b.af = AF_INET /\ a.addr # b.addr

\* Sequences of n addresses out of a and b: k times a then b, and a and b in turn
Turns(a, b, n) ==
    {[i \in 1 .. n |-> IF i <= k THEN a ELSE b] : k \in 0 .. n}
    \cup {[i \in 1 .. n |-> IF i % 2 = 1 THEN a ELSE b]}

----------------------------------------------------------------------------
(* Claims about the capacity of a table, under SpecCap *)

\* The IPv4 table with one prefix more than it may hold
NextCap ==
    \/ RatelimitAllow(CapSAs, FALSE)
    \/ GcCallout4
    \/ TableTick

SpecCap == InitLimiter /\ [][NextCap]_vars

\* rl_table_num counts the entries on the lists of rl and is within the cap
Counted(rl) ==
    /\ rl.rl_table_num = SumLen(rl.rl_table, RATELIMIT_SIZE - 1)
    /\ rl.rl_table_num <= RATELIMIT_SIZE_MAX

C11_State ==
    /\ Counted(ratelimit_v4)
    /\ Counted(ratelimit_v6)
    /\ \A sa \in CapSAs \cup ProbeSAs, alloc_ok \in BOOLEAN :
          (~HasEntry(TableOf(sa), sa) /\ ~CanInsert(TableOf(sa), alloc_ok)) =>
              ratelimit_allow(TableOf(sa), sa, now, alloc_ok)
                  = [rl |-> TableOf(sa), ret |-> ECONNREFUSED]

C11_Step ==
    (last'.op = "allow" /\ ~HasEntry(TableOf(last'.sa), last'.sa)) =>
        /\ TableOf(last'.sa).rl_table_num >= RATELIMIT_SIZE_MAX => last'.ret = ECONNREFUSED
        /\ last'.ret = ECONNREFUSED =>
              (ratelimit_v4' = ratelimit_v4 /\ ratelimit_v6' = ratelimit_v6)

\* C11: in every state rl_table_num is the number of entries of the table and at
\* most RATELIMIT_SIZE_MAX; a ratelimit_allow call for a prefix without an entry,
\* made when the count is at the cap or when uma_zalloc fails, returns ECONNREFUSED
\* and leaves the table, the count and the pending callout as they were.
C11_CapacityCap == []C11_State /\ [][C11_Step]_vars

\* A call for a prefix without an entry was refused by a table at its cap
C11_Witness ==
    /\ last.op = "allow" /\ last.ret = ECONNREFUSED
    /\ ~HasEntry(ratelimit_v4, last.sa)
    /\ ratelimit_v4.rl_table_num = RATELIMIT_SIZE_MAX

----------------------------------------------------------------------------
(* Claims about the sweep, under SpecGc *)

\* ratelimit_allow for sa with memory to be had, on the IPv4 table and on the
\* reference table, which no callout sweeps
RefAllow(SAs) ==
    \E sa \in SAs :
        LET r == ratelimit_allow(ratelimit_v4, sa, now, TRUE)
            q == ratelimit_allow(ref.rl, sa, now, TRUE)
        IN  /\ ratelimit_v4' = r.rl
            /\ ref' = [rl |-> q.rl,
                       same |-> ref.same /\ q.ret = r.ret,
                       back |-> ~HasEntry(ratelimit_v4, sa) /\ HasEntry(ref.rl, sa)]
            /\ last' = Call("allow", r.ret, TRUE, sa)
            /\ UNCHANGED <<now, cp, cc, ratelimit_v6, msg, reply, ndraws, seen, hist,
                           life, thr, cp_lock>>

GcTick == \E d \in GcSteps : GcTimely(d) /\ Tick(d, MaxGcTicks)

NextGc ==
    \/ RefAllow(GcSAs)
    \/ GcCallout4
    \/ GcTick

SpecGc == InitLimiter /\ [][NextGc]_vars

\* The entries on the lists of rl
Entries(rl) ==
    UNION {{rl.rl_table[b][i] : i \in 1 .. Len(rl.rl_table[b])} : b \in 0 .. RATELIMIT_SIZE - 1}

\* No entry of rl has been idle for more than d ticks
IdleAtMost(rl, d) == \A r \in Entries(rl) : now - r.r_last_time <= d

\* A callout is pending exactly while the table holds entries
PendingIffEntries(rl) == rl.rl_gc_pending <=> rl.rl_table_num > 0

\* A callout becomes pending only in a call that inserts an entry
ScheduledByInsert(rl, rl2, c) ==
    (~rl.rl_gc_pending /\ rl2.rl_gc_pending) =>
        (c.op = "allow" /\ c.ret = OK /\ rl2.rl_table_num = rl.rl_table_num + 1)

C12_Step ==
    /\ ScheduledByInsert(ratelimit_v4, ratelimit_v4', last')
    /\ ScheduledByInsert(ratelimit_v6, ratelimit_v6', last')

\* The original statement of C12: no entry stays in a table for more than
\* ELEMENT_TIMEOUT, and the lateness of a callout, after the last call that touched
\* it; and no callout is pending while the table is empty.
C12_Original ==
    /\ IdleAtMost(ratelimit_v4, ELEMENT_TIMEOUT * SBT_1S + MaxGcDelay)
    /\ PendingIffEntries(ratelimit_v4)

\* C12 (amended): with callouts that run at most MaxGcDelay late, no entry stays
\* in a table for more than twice ELEMENT_TIMEOUT, and that lateness, after the
\* last call that touched it; a callout is pending exactly while the table holds
\* entries, so an empty table has none pending and a sweep that empties the table
\* schedules none; and a callout becomes pending only in a call that inserts an
\* entry.
C12_GcTermination ==
    /\ [](IdleAtMost(ratelimit_v4, 2 * ELEMENT_TIMEOUT * SBT_1S + MaxGcDelay)
           /\ PendingIffEntries(ratelimit_v4) /\ PendingIffEntries(ratelimit_v6))
    /\ [][C12_Step]_vars

\* A sweep emptied the table, more than ELEMENT_TIMEOUT and the lateness of a
\* callout after the last call, and scheduled nothing
C12_Witness ==
    /\ last.op = "gc"
    /\ ratelimit_v4.rl_table_num = 0 /\ ~ratelimit_v4.rl_gc_pending
    /\ ref.rl.rl_table_num > 0
    /\ \A r \in Entries(ref.rl) : now - r.r_last_time > ELEMENT_TIMEOUT * SBT_1S + MaxGcDelay

\* C19: with memory to be had and the table below its cap, every verdict of
\* ratelimit_allow so far was the verdict of the reference table, which is given
\* the same calls and never swept, and so is the verdict of the next call for any
\* source; an entry the table holds is the reference's entry, and an entry only the
\* reference holds has refilled to TOKEN_MAX.
C19_GcPreservesVerdicts ==
    /\ ref.same
    /\ \A sa \in GcSAs :
          /\ ratelimit_allow(ratelimit_v4, sa, now, TRUE).ret
                 = ratelimit_allow(ref.rl, sa, now, TRUE).ret
          /\ HasEntry(ratelimit_v4, sa) =>
                 (HasEntry(ref.rl, sa) /\ EntryOf(ratelimit_v4, sa) = EntryOf(ref.rl, sa))
          /\ (~HasEntry(ratelimit_v4, sa) /\ HasEntry(ref.rl, sa)) =>
                 EntryOf(ref.rl, sa).r_tokens + (now - EntryOf(ref.rl, sa).r_last_time)
                     >= TOKEN_MAX

\* A call put back an entry that a sweep had removed, while the table held the
\* entry of another prefix
C19_Witness ==
    /\ last.op = "allow" /\ last.ret = OK
    /\ ref.back
    /\ ratelimit_v4.rl_table_num = 2

----------------------------------------------------------------------------
(* Claims about teardown, under SpecDeinit *)

\* n entries are handed to uma_zfree: when ratelimit_zone has been destroyed the
\* zone is used after its release, and the kernel may panic there or carry on
ZFree(n, pc) ==
    IF n > 0 /\ ~life.zone
    THEN \E out \in {pc, "panic"} : life' = [life EXCEPT !.pc = out, !.stale = @ + n]
    ELSE life' = [life EXCEPT !.pc = pc]

\* The callout of rl is due: softclock takes it off the wheel, which clears
\* callout_pending, and goes for rl_lock
GcFire(rl) ==
    /\ rl.rl_gc_pending
    /\ now >= rl.rl_gc_time
    /\ life.pc # "panic"

Fired(rl) == [rl EXCEPT !.rl_gc_pending = FALSE, !.rl_gc_curr = TRUE]

GcFire4 ==
    /\ GcFire(ratelimit_v4)
    /\ ratelimit_v4' = Fired(ratelimit_v4)
    /\ last' = Call("fire", NONE, FALSE, NoSA)
    /\ UNCHANGED <<now, cp, cc, ratelimit_v6, msg, reply, ndraws, seen, hist, rest>>

GcFire6 ==
    /\ GcFire(ratelimit_v6)
    /\ ratelimit_v6' = Fired(ratelimit_v6)
    /\ last' = Call("fire", NONE, FALSE, NoSA)
    /\ UNCHANGED <<now, cp, cc, ratelimit_v4, msg, reply, ndraws, seen, hist, rest>>

\* softclock got rl_lock and the callout was not cancelled meanwhile:
\* ratelimit_gc_callout runs
GcRun4 ==
    /\ ratelimit_v4.rl_gc_curr
    /\ life.pc # "panic"
    /\ LET rl == ratelimit_gc_callout([ratelimit_v4 EXCEPT !.rl_gc_curr = FALSE], now)
       IN  /\ ratelimit_v4' = rl
           /\ ZFree(ratelimit_v4.rl_table_num - rl.rl_table_num, life.pc)
    /\ last' = Call("gc", NONE, FALSE, NoSA)
    /\ UNCHANGED <<now, cp, cc, ratelimit_v6, msg, reply, ndraws, seen, hist, ref, thr,
                   cp_lock>>

GcRun6 ==
    /\ ratelimit_v6.rl_gc_curr
    /\ life.pc # "panic"
    /\ LET rl == ratelimit_gc_callout([ratelimit_v6 EXCEPT !.rl_gc_curr = FALSE], now)
       IN  /\ ratelimit_v6' = rl
           /\ ZFree(ratelimit_v6.rl_table_num - rl.rl_table_num, life.pc)
    /\ last' = Call("gc", NONE, FALSE, NoSA)
    /\ UNCHANGED <<now, cp, cc, ratelimit_v4, msg, reply, ndraws, seen, hist, ref, thr,
                   cp_lock>>

\* Packets are handled until cookie_deinit is called
DeinitAllow == life.pc = "run" /\ RatelimitAllow(DeinitSAs, FALSE)

\* cookie_deinit: uma_zdestroy(ratelimit_zone)
ZDestroy ==
    /\ life.pc = "run"
    /\ life' = [life EXCEPT !.pc = "zdestroyed", !.zone = FALSE,
                            !.left = ratelimit_v4.rl_table_num + ratelimit_v6.rl_table_num]
    /\ last' = Call("zdestroy", NONE, FALSE, NoSA)
    /\ UNCHANGED <<now, cp, cc, ratelimit_v4, ratelimit_v6, msg, reply, ndraws, seen, hist,
                   ref, thr, cp_lock>>

\* cookie_deinit: ratelimit_deinit(&ratelimit_v4)
Deinit4 ==
    /\ life.pc = "zdestroyed"
    /\ ratelimit_v4' = ratelimit_deinit(ratelimit_v4, now)
    /\ \E out \in IF ratelimit_v4.rl_table_num > 0 THEN {"deinit4", "panic"} ELSE {"deinit4"} :
          life' = [life EXCEPT !.pc = out, !.stale = @ + ratelimit_v4.rl_table_num,
                               !.cut = @ \/ ratelimit_v4.rl_gc_curr]
    /\ last' = Call("deinit", NONE, FALSE, NoSA)
    /\ UNCHANGED <<now, cp, cc, ratelimit_v6, msg, reply, ndraws, seen, hist, ref, thr,
                   cp_lock>>

\* cookie_deinit: ratelimit_deinit(&ratelimit_v6), and return
Deinit6 ==
    /\ life.pc = "deinit4"
    /\ ratelimit_v6' = ratelimit_deinit(ratelimit_v6, now)
    /\ \E out \in IF ratelimit_v6.rl_table_num > 0 THEN {"done", "panic"} ELSE {"done"} :
          life' = [life EXCEPT !.pc = out, !.stale = @ + ratelimit_v6.rl_table_num,
                               !.cut = @ \/ ratelimit_v6.rl_gc_curr]
    /\ last' = Call("deinit", NONE, FALSE, NoSA)
    /\ UNCHANGED <<now, cp, cc, ratelimit_v4, msg, reply, ndraws, seen, hist, ref, thr,
                   cp_lock>>

NextDeinit ==
    \/ DeinitAllow
    \/ GcFire4
    \/ GcFire6
    \/ GcRun4
    \/ GcRun6
    \/ TableTick
    \/ ZDestroy
    \/ Deinit4
    \/ Deinit6

SpecDeinit == InitLimiter /\ [][NextDeinit]_vars

\* ratelimit_deinit has returned for the IPv4 table, for the IPv6 table
Returned4 == life.pc = "deinit4" \/ life.pc = "done"
Returned6 == life.pc = "done"

\* rl holds no entry, and its callout is neither pending nor waiting for the lock
TornDown(rl) ==
    /\ rl.rl_table_num = 0
    /\ Entries(rl) = {}
    /\ ~rl.rl_gc_pending
    /\ ~rl.rl_gc_curr

C16_State ==
    /\ Returned4 => TornDown(ratelimit_v4)
    /\ Returned6 => TornDown(ratelimit_v6)

C16_Step ==
    /\ Returned4 => ratelimit_v4' = ratelimit_v4
    /\ Returned6 => ratelimit_v6' = ratelimit_v6
    /\ (Returned4 /\ Returned6) => (last'.op # "gc" /\ last'.op # "fire")

\* C16: once ratelimit_deinit has returned for a table, the table holds no entry
\* of any age and rl_table_num is 0, its callout is neither pending nor, having
\* fired, waiting for rl_lock, and from then on the table never changes: no callout
\* of it fires, runs or is armed again.
C16_DeinitTeardown == []C16_State /\ [][C16_Step]_vars

\* cookie_deinit returned after a ratelimit_deinit had emptied a table whose
\* callout had fired and was waiting for the lock
C16_Witness ==
    /\ life.pc = "done"
    /\ life.cut
    /\ life.stale > 0

\* C20: no entry is still allocated from ratelimit_zone when uma_zdestroy is
\* called on it, and none is handed to uma_zfree afterwards.
C20_TeardownOrder ==
    /\ life.left = 0
    /\ life.stale = 0

============================================================================
